---- MODULE Spec2Model ----
(***************************************************************************)
(* EdUTEND attendance backend: the QR attendance-session model             *)
(* (backend/models/QR.js), its routes (backend/routes/qr.js) and the       *)
(* attendance marking route (backend/routes/attendance.js) over the        *)
(* Attendance model.  Time is counted in minutes.                          *)
(***************************************************************************)
EXTENDS Integers, Sequences, FiniteSets, TLC

(* ------------------------------ bounds --------------------------------- *)
MaxTime == 2
MaxSessions == 1
MaxScans == 1
MaxRecords == 2
MaxDays == 1
DayLen == 2
MaxTimers == 2
MaxScheduled == 6
MaxRefreshes == 2

(* ------------------------- program constants --------------------------- *)
MinDuration == 1
MaxDuration == 480
MaxTitleLen == 100
MaxNotesLen == 200

DefaultTitleLen == 30
\* SOCKET_CONFIG.RECONNECTION.MAX_ATTEMPTS
maxReconnectAttempts == 5
\* API_CONFIG.RETRY.MAX_ATTEMPTS
MAX_ATTEMPTS == 3

\* JavaScript undefined: as a string id, as a number (Invalid Date, unset
\* Date) and as a session id.
Undef == "undefined"
NoTime == 0 - 1
BadDate == 0 - 2
NoId == 0 - 2
BadSessionId == 0 - 1
NoSession == [absent |-> TRUE]

(* ------------------------- users and courses --------------------------- *)
\* An ObjectId and its string form are different JavaScript values.
OID(x) == <<"oid", x>>
ToStr(o) == <<"str", o[2]>>

\* The User documents of the store, and the callers that send requests (a
\* request without a token is from Anonymous).
Users == {"adm", "lecA", "lecB", "stuA"}
Anonymous == "anon"
Callers == {Anonymous, "adm", "lecA", "stuA"}
Readers == {Anonymous, "stuA"}
Markers == {"adm", "stuA"}

roleOf(u) ==
  CASE u = "adm" -> "admin"
    [] u \in {"lecA", "lecB"} -> "lecturer"
    [] OTHER -> "student"

\* authenticateToken: req.user = { userId: user._id, role: user.role }
reqUser(u) == [userId |-> OID(u), role |-> roleOf(u)]

Courses == {"c1", "c2"}
GhostCourse == "c9"
BadId == "not-an-id"

\* The Course documents of the store: lecturer and students are ObjectIds.
courseDoc(c) ==
  IF c = "c1" THEN [lecturer |-> OID("lecA"), students |-> {OID("stuA")}]
  ELSE [lecturer |-> OID("lecB"), students |-> {}]

\* requireRole(roles): 401 without req.user, 403 when the role is not listed
requireRole(u, roles) ==
  IF u = Anonymous THEN "Unauthenticated"
  ELSE IF roleOf(u) \notin roles THEN "Forbidden"
  ELSE "next"

requireLecturer(u) == requireRole(u, {"admin", "lecturer"})

\* authenticateToken: 401 without a token, otherwise next()
authenticateToken(u) == IF u = Anonymous THEN "Unauthenticated" ELSE "next"

(* ------------------------------ parseInt ------------------------------- *)
Digits == {"0", "1", "2", "3", "4", "5", "6", "7", "8", "9"}

DigitVal(ch) ==
  CASE ch = "0" -> 0 [] ch = "1" -> 1 [] ch = "2" -> 2 [] ch = "3" -> 3
    [] ch = "4" -> 4 [] ch = "5" -> 5 [] ch = "6" -> 6 [] ch = "7" -> 7
    [] ch = "8" -> 8 [] OTHER -> 9

RECURSIVE DigitPrefix(_, _)
\* value of the longest prefix of decimal digits of s, after acc
DigitPrefix(s, acc) ==
  IF s = <<>> \/ Head(s) \notin Digits THEN acc
  ELSE DigitPrefix(Tail(s), acc * 10 + DigitVal(Head(s)))

\* JavaScript parseInt(s): optional sign, then the leading digits; NaN when
\* there is no leading digit.  What follows the digits is ignored.
parseInt(s) ==
  LET neg == s # <<>> /\ Head(s) = "-"
      body == IF s # <<>> /\ Head(s) \in {"-", "+"} THEN Tail(s) ELSE s
  IN IF body = <<>> \/ Head(body) \notin Digits
       THEN [nan |-> TRUE, val |-> 0]
       ELSE [nan |-> FALSE,
             val |-> IF neg THEN 0 - DigitPrefix(body, 0)
                     ELSE DigitPrefix(body, 0)]

\* The duration query strings offered to the generate route.
Durations ==
  { <<>>, <<"0">>, <<"1">>, <<"4", "8", "0">>, <<"4", "8", "1">>,
    <<"2", "x">>, <<"x">>, <<"-", "1">>, <<"4", "8", "0", ".", "5">> }

(* ------------------------------ payloads ------------------------------- *)
\* What JSON.parse(qrCode) yields: kind "object" carries the three fields
\* (each possibly undefined); the other kinds are the empty query value,
\* text that is not JSON, JSON null and a JSON scalar.
Payload(k, sid, c, e) ==
  [kind |-> k, sessionId |-> sid, courseId |-> c, expiresAt |-> e]

NoPayload == Payload(Undef, NoId, Undef, NoTime)

(* ------------------------------- state --------------------------------- *)
\* now: the clock; sessions: the QR collection by _id; attendance: the
\* Attendance collection; last: the most recent response; pending: the mark
\* requests that have read the store and not yet saved; published: the
\* events emitted on the Socket.IO server.  In the browser: overlay, the
\* LoadingOverlay; socket, the SocketService; api, the ApiService.
VARIABLES now, sessions, attendance, last, pending, published,
          overlay, socket, api

server == <<now, sessions, attendance, last, pending, published>>
vars == <<now, sessions, attendance, last, pending, published,
          overlay, socket, api>>

SessionIds == 1..MaxSessions

Exists(s) == s \in SessionIds /\ sessions[s] # NoSession

\* The response of the most recent request (observation only).
NoCall ==
  [op |-> "none", res |-> "none", user |-> Anonymous, sid |-> NoId,
   prevStatus |-> "none", prevCount |-> 0, list |-> {}, dur |-> <<>>,
   course |-> Undef, student |-> Undef, date |-> NoTime, status |-> Undef,
   notes |-> Undef, kind |-> Undef, dataCourse |-> Undef,
   dataExpiry |-> NoTime]

Reply(op, res, u) == [NoCall EXCEPT !.op = op, !.res = res, !.user = u]

\* The two mark requests that may be in flight together, and the slot of a
\* request that has not been sent.
Requests == {1, 2}

NoRequest ==
  [pc |-> "idle", user |-> Anonymous, student |-> Undef, course |-> Undef,
   date |-> NoTime, status |-> Undef, notes |-> Undef, found |-> FALSE,
   loadedStatus |-> Undef, loadedNotes |-> Undef, overlapped |-> FALSE,
   res |-> "none", sid |-> NoId, doc |-> NoSession]

(* --------------------------- QR model hooks ---------------------------- *)
\* a pre-save hook that derives the status from the clock in both directions
qrPreSaveReactivating(doc) ==
  [doc EXCEPT !.status = IF now > doc.expiresAt THEN "expired" ELSE "active"]

\* qrSchema.pre('save'): auto-expire when past the expiration date
qrPreSave(doc) ==
  IF now > doc.expiresAt THEN [doc EXCEPT !.status = "expired"] ELSE doc

\* a schema whose qrCodeData path is not required
qrValidatesLax(doc, titleLen, notesLen) ==
  /\ titleLen >= 1 /\ titleLen <= MaxTitleLen
  /\ notesLen <= MaxNotesLen

\* qrSchema validation run by save(): required paths and maxlength
qrValidates(doc, titleLen, notesLen) ==
  /\ doc.qrCodeData.kind # Undef
  /\ titleLen >= 1 /\ titleLen <= MaxTitleLen
  /\ notesLen <= MaxNotesLen

\* A session document; qrCodeData is the payload embedded in the QR image.
SessionDoc(c, by, exp, data) ==
  [status |-> "active", courseId |-> OID(c), createdBy |-> OID(by),
   createdAt |-> now, expiresAt |-> exp, qrCodeData |-> data,
   scannedCount |-> 0, lastScannedAt |-> NoTime]

FreeSlots == {s \in SessionIds : sessions[s] = NoSession}
NextSlot == CHOOSE s \in FreeSlots : \A t \in FreeSlots : s <= t

(* --------------------------- browser state ----------------------------- *)

\* new LoadingOverlay(): createOverlay() builds the element without the
\* 'show' class and with the text 'Loading...'; init() then calls hide(),
\* which returns at once because isVisible is false.  text is the message
\* element's text (the message and the progress put behind it), color and
\* background the inline styles, overflow the body's overflow style, timers
\* the number of showSuccess/showError timeouts not yet fired, lastCall the
\* last of show() and hide() that ran, destroyed whether destroy() ran.
\* NoProgress stands for a progress argument that is undefined.
NoProgress == -1

Text(m, p) == [msg |-> m, pct |-> p]

NewLoadingOverlay ==
  [isVisible |-> FALSE, classShow |-> FALSE, text |-> Text("Loading...", NoProgress),
   color |-> "", background |-> "", overflow |-> "", timers |-> 0,
   lastCall |-> "hide", destroyed |-> FALSE]

\* new SocketService() in a browser that holds no auth token: init() does
\* not connect.  token: localStorage holds the auth token; hasSocket:
\* this.socket is set; orphans: a socket that connect() replaced without
\* closing it is still alive; timers: reconnect timeouts not yet fired;
\* scheduled: the reconnects scheduled since the last login or 'connect'
\* event; maxEmitted: 'socket:max_reconnect_attempts' was emitted since.
NewSocketService ==
  [token |-> FALSE, hasSocket |-> FALSE, orphans |-> FALSE,
   isConnected |-> FALSE, reconnectAttempts |-> 0, timers |-> 0,
   scheduled |-> 0, maxEmitted |-> FALSE]

\* A logical request: attempt is the attempt argument of the running
\* request() call, fetches the fetch calls issued for the request so far,
\* status and body the 401 response held while the token is refreshed,
\* retriedHttp whether the catch clause retried after an HTTP response.
NoApiRequest ==
  [pc |-> "idle", attempt |-> 0, fetches |-> 0, status |-> 0,
   body |-> "none", retriedHttp |-> FALSE]

\* new ApiService() in a browser that holds no tokens.  handlerRefresh and
\* timerRefreshes count the refreshAuthToken() calls in flight that the
\* 401 handler and the periodic timer started.
NewApiService ==
  [refreshToken |-> FALSE, isRefreshing |-> FALSE, handlerRefresh |-> 0,
   timerRefreshes |-> 0, req |-> NoApiRequest]

\* The backend with an empty store, as the browser-side specifications
\* leave it.
ServerIdle ==
  /\ now = 0
  /\ sessions = [s \in SessionIds |-> NoSession]
  /\ attendance = {}
  /\ last = NoCall
  /\ pending = [r \in Requests |-> NoRequest]
  /\ published = {}

ClientInit ==
  /\ overlay = NewLoadingOverlay
  /\ socket = NewSocketService
  /\ api = NewApiService

(* ------------------------------- Init ---------------------------------- *)
\* The store is persistent: at start-up it holds any documents the schemas
\* admit.  Sessions start Active, created by their course's lecturer or by
\* the administrator, with their payload stored; no attendance is recorded.
\* Odd sessions are lecA's for the course c1, even ones the administrator's
\* for c2; each expires at minute InitExpiry.
InitExpiries == {1}

InitSessionDoc(s, e) ==
  LET c == IF s % 2 = 1 THEN "c1" ELSE "c2"
      by == IF s % 2 = 1 THEN "lecA" ELSE "adm"
  IN [status |-> "active", courseId |-> OID(c), createdBy |-> OID(by),
      createdAt |-> 0, expiresAt |-> e,
      qrCodeData |-> Payload("object", s, c, e),
      scannedCount |-> 0, lastScannedAt |-> NoTime]

Init ==
  /\ now = 0
  /\ sessions \in [SessionIds ->
        {InitSessionDoc(s, e) : s \in SessionIds, e \in InitExpiries}
          \cup {NoSession}]
  /\ \A s \in SessionIds :
       sessions[s] # NoSession => sessions[s].qrCodeData.sessionId = s
  /\ attendance = {}
  /\ last = NoCall
  /\ pending = [r \in Requests |-> NoRequest]
  /\ published = {}
  /\ ClientInit

(* ------------------------------- clock --------------------------------- *)
Tick ==
  /\ now < MaxTime
  /\ now' = now + 1
  /\ last' = NoCall
  /\ UNCHANGED <<sessions, attendance, pending, published, overlay, socket, api>>

(* ------------------------ GET /api/qr/generate ------------------------- *)
CourseInputs == Courses \cup {GhostCourse, BadId, Undef}
TitleLens == {0, MaxTitleLen + 1}
NotesLens == {0, MaxNotesLen + 1}

\* the duration check of the route, on the parsed number
durationRejected(durationNum) ==
  durationNum.nan \/ durationNum.val < MinDuration
                  \/ durationNum.val > MaxDuration

\* the lecturer's access check of the generate route
generateForbidden(u, c) ==
  reqUser(u).role = "lecturer" /\ ToStr(courseDoc(c).lecturer) # reqUser(u).userId

Generate(u, c, dur, titleLen, notesLen) ==
  LET durationNum == parseInt(dur)
      title == IF titleLen = 0 THEN DefaultTitleLen ELSE titleLen
      doc == SessionDoc(c, u, now + durationNum.val, NoPayload)
      fail(r) == /\ last' = [Reply("generate", r, u) EXCEPT !.dur = dur,
                                                            !.course = c]
                 /\ UNCHANGED sessions
  IN /\ UNCHANGED <<now, attendance, pending, published, overlay, socket, api>>
     /\ IF requireLecturer(u) # "next" THEN fail(requireLecturer(u))
        ELSE IF c = Undef \/ dur = <<>> THEN fail("MissingParams")
        ELSE IF durationRejected(durationNum) THEN fail("InvalidDuration")
        ELSE IF c = BadId THEN fail("ServerError")
        ELSE IF c \notin Courses THEN fail("CourseNotFound")
        ELSE IF generateForbidden(u, c) THEN fail("Forbidden")
        ELSE IF ~qrValidates(doc, title, notesLen) THEN fail("ServerError")
        ELSE /\ FreeSlots # {}
             /\ sessions' = [sessions EXCEPT ![NextSlot] = qrPreSave(doc)]
             /\ last' = [Reply("generate", "ok", u) EXCEPT
                           !.sid = NextSlot, !.dur = dur, !.course = c]

(* ------------------------ GET /api/qr/validate ------------------------- *)
\* new Date() > new Date(expiresAt): an undefined expiresAt is an Invalid
\* Date, and every comparison with it is false.
payloadExpired(e) == e # NoTime /\ now > e

\* the enrolment check of the validate route, for a student caller
notEnrolled(u, c) ==
  \/ c \notin Courses
  \/ ~ \E st \in courseDoc(c).students : ToStr(st) = reqUser(u).userId

\* The payloads a client can present: the stored payload of a session, or
\* a payload with forged fields.
PayloadTimes == {NoTime, 0}

\* the payloads stored with the sessions
StoredPayloads ==
  { sessions[s].qrCodeData : s \in {t \in SessionIds : Exists(t)} }

\* forged payloads that name a session: without an expiry, with another
\* course and expiry, with a course id that is no ObjectId
ForgedPayloads ==
  { Payload("object", sid, "c1", NoTime) : sid \in SessionIds }
  \cup { Payload("object", sid, "c2", 0) : sid \in SessionIds }

BadCoursePayloads ==
  { Payload("object", sid, BadId, NoTime) : sid \in SessionIds }

SessionPayloads == StoredPayloads \cup ForgedPayloads \cup BadCoursePayloads

\* payloads that name none: no value, no JSON, null, a scalar, no usable id
OtherPayloads ==
  { Payload(k, NoId, Undef, NoTime) : k \in {Undef, "nonjson", "null", "scalar"} }
  \cup { Payload("object", sid, "c1", NoTime) : sid \in {NoId, BadSessionId} }

Scanners == {"adm", "stuA"}

\* <<caller, payload>> of the validate requests
ScanInputs ==
  ({"adm"} \X (StoredPayloads \cup ForgedPayloads \cup OtherPayloads))
    \cup ({"stuA"} \X (StoredPayloads \cup BadCoursePayloads))
    \cup {<<Anonymous, NoPayload>>}

Validate(u, p) ==
  LET sid == p.sessionId
      doc == sessions[sid]
      reply(r) == last' = [Reply("validate", r, u) EXCEPT !.kind = p.kind]
      missing(r) == last' = [Reply("validate", r, u) EXCEPT
                               !.sid = sid, !.kind = p.kind]
      found(r) == last' = [Reply("validate", r, u) EXCEPT
                             !.sid = sid, !.prevStatus = doc.status,
                             !.prevCount = doc.scannedCount,
                             !.kind = p.kind]
      \* the data object of the two 400 answers: fields of the payload
      expired == last' = [Reply("validate", "SessionExpired", u) EXCEPT
                            !.sid = sid, !.prevStatus = doc.status,
                            !.prevCount = doc.scannedCount, !.kind = p.kind,
                            !.dataCourse = p.courseId,
                            !.dataExpiry = p.expiresAt]
      notActive == last' = [Reply("validate", "SessionNotActive", u) EXCEPT
                              !.sid = sid, !.prevStatus = doc.status,
                              !.prevCount = doc.scannedCount, !.kind = p.kind,
                              !.dataCourse = p.courseId]
  IN /\ UNCHANGED <<now, sessions, attendance, pending, published,
                  overlay, socket, api>>
     /\ IF authenticateToken(u) # "next"
          THEN last' = Reply("validate", authenticateToken(u), u)
        ELSE IF p.kind = Undef THEN reply("MissingPayload")
        ELSE IF p.kind = "nonjson" THEN reply("MalformedPayload")
        ELSE IF p.kind = "null" THEN reply("ServerError")
        ELSE IF sid = BadSessionId THEN missing("ServerError")
        ELSE IF ~Exists(sid) THEN missing("SessionNotFound")
        ELSE IF payloadExpired(p.expiresAt) THEN expired
        ELSE IF doc.status # "active" THEN notActive
        ELSE IF reqUser(u).role = "student" /\ p.courseId = BadId
               THEN found("ServerError")
        ELSE IF reqUser(u).role = "student" /\ notEnrolled(u, p.courseId)
               THEN found("NotEnrolled")
        ELSE found("ok")

(* ------------------- listing the active sessions ----------------------- *)
\* the query with $gte in place of $gt
activeQueryInclusive(doc) == doc.status = "active" /\ doc.expiresAt >= now

\* the query { status: 'active', expiresAt: { $gt: new Date() } }
activeQuery(doc) == doc.status = "active" /\ doc.expiresAt > now

\* QR.find(...) of GET /sessions (course given) and GET /active (no course)
findActive(c) ==
  {s \in SessionIds : /\ Exists(s)
                      /\ activeQuery(sessions[s])
                      /\ c # Undef => sessions[s].courseId = OID(c)}

\* qrSchema.statics.getActiveForCourse
getActiveForCourse(c) ==
  {s \in SessionIds : Exists(s) /\ sessions[s].courseId = OID(c)
                                /\ activeQuery(sessions[s])}

\* qrSchema.statics.getActiveByUser
getActiveByUser(by) ==
  {s \in SessionIds : Exists(s) /\ sessions[s].createdBy = OID(by)
                                /\ activeQuery(sessions[s])}

ListReply(op, u, c, result) ==
  [Reply(op, "ok", u) EXCEPT !.list = result]

\* GET /api/qr/sessions?courseId=
GetSessions(u, c) ==
  /\ UNCHANGED <<now, sessions, attendance, pending, published,
                  overlay, socket, api>>
  /\ IF authenticateToken(u) # "next"
       THEN last' = Reply("sessions", authenticateToken(u), u)
     ELSE IF c = Undef THEN last' = Reply("sessions", "MissingParams", u)
     ELSE IF c = BadId THEN last' = Reply("sessions", "ServerError", u)
     ELSE last' = ListReply("sessions", u, c, findActive(c))

\* GET /api/qr/active
GetActive(u) ==
  /\ UNCHANGED <<now, sessions, attendance, pending, published,
                  overlay, socket, api>>
  /\ IF authenticateToken(u) # "next"
       THEN last' = Reply("active", authenticateToken(u), u)
     ELSE last' = ListReply("active", u, Undef, findActive(Undef))

\* GET /api/qr?active=true&courseId=&status= : active=true overrides status
GetQR(u, c, status, active) ==
  LET matches(doc) ==
        /\ c # Undef => doc.courseId = OID(c)
        /\ IF active THEN activeQuery(doc)
           ELSE status # Undef => doc.status = status
      result == {s \in SessionIds : Exists(s) /\ matches(sessions[s])}
  IN /\ UNCHANGED <<now, sessions, attendance, pending, published,
                  overlay, socket, api>>
     /\ IF authenticateToken(u) # "next"
          THEN last' = Reply("list", authenticateToken(u), u)
        ELSE IF c = BadId THEN last' = Reply("list", "ServerError", u)
        ELSE last' = ListReply(IF active THEN "listActive" ELSE "list",
                               u, c, result)

(* ----------------------- PUT /api/qr/:id/expire ------------------------ *)
\* the lecturer's access check of the expire route
expireForbidden(u, doc) ==
  reqUser(u).role = "lecturer" /\ ToStr(doc.createdBy) # reqUser(u).userId

\* <<caller, id>> of the expire requests
ExpireInputs ==
  ({"adm"} \X SessionIds)
    \cup {<<"lecA", 1>>, <<"stuA", 1>>, <<Anonymous, 1>>,
          <<"adm", BadSessionId>>}

ExpireRoute(u, sid) ==
  LET doc == sessions[sid]
      fail(r) == last' = [Reply("expireRoute", r, u) EXCEPT !.sid = sid]
  IN /\ UNCHANGED <<now, attendance, pending, published, overlay, socket, api>>
     /\ IF requireLecturer(u) # "next"
          THEN fail(requireLecturer(u)) /\ UNCHANGED sessions
        ELSE IF sid = BadSessionId
          THEN fail("ServerError") /\ UNCHANGED sessions
        ELSE IF ~Exists(sid)
          THEN fail("SessionNotFound") /\ UNCHANGED sessions
        ELSE IF expireForbidden(u, doc)
          THEN /\ last' = [Reply("expireRoute", "Forbidden", u) EXCEPT
                             !.sid = sid, !.prevStatus = doc.status]
               /\ UNCHANGED sessions
        ELSE /\ sessions' = [sessions EXCEPT ![sid] =
                   qrPreSave([doc EXCEPT !.status = "expired",
                                         !.expiresAt = now])]
             /\ last' = [Reply("expireRoute", "ok", u) EXCEPT
                           !.sid = sid, !.prevStatus = doc.status]

(* ------------------------- QR model methods ---------------------------- *)
MethodReply(op, sid) ==
  [Reply(op, "ok", Anonymous) EXCEPT
     !.sid = sid, !.prevStatus = sessions[sid].status,
     !.prevCount = sessions[sid].scannedCount]

\* an expire that also moves the expiry embedded in the payload
expireRewritingPayload(sid) ==
  /\ Exists(sid)
  /\ sessions' = [sessions EXCEPT ![sid] =
        qrPreSave([@ EXCEPT !.status = "expired", !.expiresAt = now,
                            !.qrCodeData.expiresAt = now])]
  /\ last' = MethodReply("expire", sid)
  /\ UNCHANGED <<now, attendance, pending, published, overlay, socket, api>>

\* qrSchema.methods.expire
expire(sid) ==
  /\ Exists(sid)
  /\ sessions' = [sessions EXCEPT ![sid] =
        qrPreSave([@ EXCEPT !.status = "expired", !.expiresAt = now])]
  /\ last' = MethodReply("expire", sid)
  /\ UNCHANGED <<now, attendance, pending, published, overlay, socket, api>>

\* qrSchema.methods.cancel, run for the caller u: the method takes no
\* argument and reads no caller, whoever it is run for
Cancellers == {"adm", "stuA"}

cancel(u, sid) ==
  /\ Exists(sid)
  /\ sessions' = [sessions EXCEPT ![sid] =
        qrPreSave([@ EXCEPT !.status = "cancelled"])]
  /\ last' = [MethodReply("cancel", sid) EXCEPT !.user = u]
  /\ UNCHANGED <<now, attendance, pending, published, overlay, socket, api>>

\* qrSchema.methods.recordScan
recordScan(sid) ==
  /\ Exists(sid)
  /\ sessions[sid].scannedCount < MaxScans
  /\ sessions' = [sessions EXCEPT ![sid] =
        qrPreSave([@ EXCEPT !.scannedCount = @ + 1, !.lastScannedAt = now])]
  /\ last' = MethodReply("recordScan", sid)
  /\ UNCHANGED <<now, attendance, pending, published, overlay, socket, api>>

\* qrSchema.statics.cleanupExpired
cleanupExpired ==
  LET expired == {s \in SessionIds : /\ Exists(s)
                                     /\ sessions[s].status = "active"
                                     /\ sessions[s].expiresAt < now}
  IN /\ sessions' = [s \in SessionIds |->
          IF s \in expired
            THEN qrPreSave([sessions[s] EXCEPT !.status = "expired"])
            ELSE sessions[s]]
     /\ last' = [Reply("cleanupExpired", "ok", Anonymous) EXCEPT
                   !.list = expired]
     /\ UNCHANGED <<now, attendance, pending, published, overlay, socket, api>>

(* ----------------------- GET /api/attendance/mark ---------------------- *)
validStatuses == {"present", "absent", "late", "excused"}

\* attendanceSchema.pre('save'): date.setHours(0, 0, 0, 0)
startOfDay(d) == d - (d % DayLen)

\* a pre-save hook that keeps the time of day
attendancePreSaveRaw(rec) == rec

attendancePreSave(rec) == [rec EXCEPT !.date = startOfDay(@)]

\* attendanceSchema validation run by save(): notes maxlength
attendanceValidates(rec) == rec.notes # "long"

\* the unique index { studentId: 1, courseId: 1, date: 1 }
uniqueIndexAllows(rec) ==
  ~ \E r \in attendance :
      /\ r.studentId = rec.studentId
      /\ r.courseId = rec.courseId
      /\ r.date = rec.date

\* Attendance.findOne({ studentId, courseId, date: new Date(date) })
findOneAttendance(st, c, d) ==
  {r \in attendance : /\ r.studentId = OID(st)
                      /\ r.courseId = OID(c)
                      /\ r.date = d}

GhostUser == "u9"
DateInputs == 0 .. MaxDays * DayLen - 1
StatusInputs == {"present", "late"}
NotesInputs == {Undef, "a"}

\* requests with one unusable parameter: <<student, course, date, status, notes>>
BadMarkInputs ==
  { <<Undef, "c1", 0, "present", Undef>>, <<"stuA", Undef, 0, "present", Undef>>,
    <<"stuA", "c1", NoTime, "present", Undef>>, <<"stuA", "c1", 0, Undef, Undef>>,
    <<"stuA", "c1", 0, "bogus", Undef>>, <<BadId, "c1", 0, "present", Undef>>,
    <<GhostUser, "c1", 0, "present", Undef>>, <<"lecA", "c1", 0, "present", Undef>>,
    <<"stuA", BadId, 0, "present", Undef>>, <<"stuA", GhostCourse, 0, "present", Undef>>,
    <<"stuA", "c1", BadDate, "present", Undef>>, <<"stuA", "c1", 0, "present", "long">>,
    <<"stuA", "c1", 1, "late", "long">> }

MarkReply(r, u, st, c, d, status, notes) ==
  [Reply("mark", r, u) EXCEPT
     !.student = st, !.course = c, !.date = d, !.status = status,
     !.notes = notes]

Mark(u, st, c, d, status, notes) ==
  LET found == findOneAttendance(st, c, d)
      existing == CHOOSE r \in found : TRUE
      updated == [existing EXCEPT
                    !.status = status,
                    !.notes = IF notes # Undef THEN notes ELSE @]
      created == [studentId |-> OID(st), courseId |-> OID(c), date |-> d,
                  status |-> status, notes |-> notes,
                  markedBy |-> reqUser(u).userId, qrSessionId |-> NoId]
      early(r) == last' = Reply("mark", r, u) /\ UNCHANGED attendance
      fail(r) == /\ last' = MarkReply(r, u, st, c, d, Undef, notes)
                 /\ UNCHANGED attendance
  IN /\ UNCHANGED <<now, sessions, pending, published, overlay, socket, api>>
     /\ IF authenticateToken(u) # "next" THEN early(authenticateToken(u))
        ELSE IF st = Undef \/ c = Undef \/ d = NoTime \/ status = Undef
          THEN early("MissingParams")
        ELSE IF status \notin validStatuses THEN early("InvalidStatus")
        ELSE IF st = BadId THEN early("ServerError")
        ELSE IF st \notin Users \/ roleOf(st) # "student"
          THEN early("StudentNotFound")
        ELSE IF c = BadId THEN early("ServerError")
        ELSE IF c \notin Courses THEN early("CourseNotFound")
        ELSE IF d = BadDate THEN early("ServerError")
        ELSE IF found # {}
          THEN IF ~attendanceValidates(updated) THEN fail("ServerError")
               ELSE /\ attendance' = (attendance \ {existing})
                                         \cup {attendancePreSave(updated)}
                    /\ last' = MarkReply("updated", u, st, c, d, status, notes)
        ELSE IF ~attendanceValidates(created) THEN fail("ServerError")
        ELSE IF ~uniqueIndexAllows(attendancePreSave(created))
          THEN fail("ServerError")
        ELSE /\ Cardinality(attendance) < MaxRecords
             /\ attendance' = attendance \cup {attendancePreSave(created)}
             /\ last' = MarkReply("created", u, st, c, d, status, notes)

(* ------------- GET /api/attendance/mark, request by request ------------ *)
\* The handler awaits the store between its reads and its save, so two
\* requests interleave there.  MarkBegin runs the handler up to the result
\* of Attendance.findOne; MarkEnd runs its save() and its response.
InFlight == {r \in Requests : pending[r].pc = "found"}

MarkBegin(r, u, st, c, d, status, notes) ==
  LET found == findOneAttendance(st, c, d)
      existing == CHOOSE x \in found : TRUE
      early(res) ==
        /\ pending' = [pending EXCEPT ![r] =
              [NoRequest EXCEPT !.pc = "done", !.user = u, !.res = res]]
        /\ last' = Reply("mark", res, u)
      request ==
        [NoRequest EXCEPT
           !.pc = "found", !.user = u, !.student = st, !.course = c,
           !.date = d, !.status = status, !.notes = notes,
           !.found = (found # {}),
           !.loadedStatus = IF found # {} THEN existing.status ELSE Undef,
           !.loadedNotes = IF found # {} THEN existing.notes ELSE Undef,
           !.overlapped = (InFlight \ {r} # {})]
  IN /\ pending[r].pc # "found"
     /\ UNCHANGED <<now, sessions, attendance, published, overlay, socket, api>>
     /\ IF authenticateToken(u) # "next" THEN early(authenticateToken(u))
        ELSE IF st = Undef \/ c = Undef \/ d = NoTime \/ status = Undef
          THEN early("MissingParams")
        ELSE IF status \notin validStatuses THEN early("InvalidStatus")
        ELSE IF st = BadId THEN early("ServerError")
        ELSE IF st \notin Users \/ roleOf(st) # "student"
          THEN early("StudentNotFound")
        ELSE IF c = BadId THEN early("ServerError")
        ELSE IF c \notin Courses THEN early("CourseNotFound")
        ELSE IF d = BadDate THEN early("ServerError")
        ELSE /\ pending' = [q \in Requests |->
                  IF q = r THEN request
                  ELSE IF q \in InFlight
                    THEN [pending[q] EXCEPT !.overlapped = TRUE]
                  ELSE pending[q]]
             /\ UNCHANGED last

\* save() of a loaded document writes the paths assigned a new value, to
\* the stored document of the same _id; save() of a new document inserts
\* it, subject to the unique index.
MarkEnd(r) ==
  LET req == pending[r]
      stored == CHOOSE x \in attendance :
                  /\ x.studentId = OID(req.student)
                  /\ x.courseId = OID(req.course)
                  /\ x.date = req.date
      inMemory == [stored EXCEPT
                     !.status = req.status,
                     !.notes = IF req.notes # Undef THEN req.notes
                               ELSE req.loadedNotes]
      written == [stored EXCEPT
                    !.status = IF req.status # req.loadedStatus
                                 THEN req.status ELSE @,
                    !.notes = IF req.notes # Undef
                                   /\ req.notes # req.loadedNotes
                                THEN req.notes ELSE @]
      created == [studentId |-> OID(req.student), courseId |-> OID(req.course),
                  date |-> req.date, status |-> req.status,
                  notes |-> req.notes, markedBy |-> reqUser(req.user).userId,
                  qrSessionId |-> NoId]
      finish(res) ==
        /\ pending' = [pending EXCEPT ![r].pc = "done", ![r].res = res]
        /\ last' = IF res = "ServerError"
                     THEN MarkReply(res, req.user, req.student, req.course,
                                    req.date, Undef, req.notes)
                     ELSE MarkReply(res, req.user, req.student, req.course,
                                    req.date, req.status, req.notes)
  IN /\ req.pc = "found"
     /\ UNCHANGED <<now, sessions, published, overlay, socket, api>>
     /\ IF req.found
          THEN IF ~attendanceValidates(inMemory)
                 THEN finish("ServerError") /\ UNCHANGED attendance
               ELSE /\ attendance' = (attendance \ {stored})
                                         \cup {attendancePreSave(written)}
                    /\ finish("updated")
        ELSE IF ~attendanceValidates(created)
          THEN finish("ServerError") /\ UNCHANGED attendance
        ELSE IF ~uniqueIndexAllows(attendancePreSave(created))
          THEN finish("ServerError") /\ UNCHANGED attendance
        ELSE /\ Cardinality(attendance) < MaxRecords
             /\ attendance' = attendance \cup {attendancePreSave(created)}
             /\ finish("created")

(* --------------------------- specifications ---------------------------- *)
StatusFilters == {Undef, "expired"}

\* <<courseId, status, active>> of the GET /api/qr requests
ListInputs ==
  ({Undef} \X StatusFilters \X BOOLEAN)
    \cup {<<"c1", Undef, TRUE>>, <<BadId, Undef, FALSE>>}

\* the session manager: the QR routes and the QR model's methods
Next ==
  \/ Tick
  \/ \E u \in {"adm", "lecA"} : Generate(u, "c1", <<"1">>, 0, 0)
  \/ \E i \in ScanInputs : Validate(i[1], i[2])
  \/ \E c \in {"c1", BadId, Undef} : GetSessions("stuA", c)
  \/ \E u \in Readers : GetActive(u)
  \/ \E i \in ListInputs : GetQR("stuA", i[1], i[2], i[3])
  \/ \E i \in ExpireInputs : ExpireRoute(i[1], i[2])
  \/ \E sid \in SessionIds : expire(sid)
  \/ \E u \in Cancellers, sid \in SessionIds : cancel(u, sid)
  \/ \E sid \in SessionIds : recordScan(sid)
  \/ cleanupExpired

Spec == Init /\ [][Next]_vars

\* the session store under every operation: each operation that writes a
\* session with every session it can write, each route that only reads with
\* the requests that reach its query
NextStore ==
  \/ Tick
  \/ Generate("adm", "c1", <<"1">>, 0, 0)
  \/ \E p \in StoredPayloads : Validate("adm", p)
  \/ \E c \in {"c1", Undef} : GetSessions("stuA", c)
  \/ GetActive("stuA")
  \/ \E i \in ListInputs : GetQR("stuA", i[1], i[2], i[3])
  \/ \E sid \in SessionIds : ExpireRoute("adm", sid)
  \/ \E sid \in SessionIds : expire(sid)
  \/ \E sid \in SessionIds : cancel("stuA", sid)
  \/ \E sid \in SessionIds : recordScan(sid)
  \/ cleanupExpired

SpecStore == Init /\ [][NextStore]_vars

\* attendance marking on its own: the mark route over the Attendance store
InitMark ==
  /\ now = 0
  /\ sessions = [s \in SessionIds |-> NoSession]
  /\ attendance = {}
  /\ last = NoCall
  /\ pending = [r \in Requests |-> NoRequest]
  /\ published = {}
  /\ ClientInit

NextMark ==
  \/ \E u \in Markers, st \in {"stuA"}, c \in Courses,
        d \in DateInputs, status \in StatusInputs, notes \in NotesInputs :
          Mark(u, st, c, d, status, notes)
  \/ \E u \in Markers, b \in BadMarkInputs :
          Mark(u, b[1], b[2], b[3], b[4], b[5])

SpecMark == InitMark /\ [][NextMark]_vars

\* the Attendance store under the mark route: every caller, course, date
\* and status, and every unusable request
NextMarkStore ==
  \/ \E u \in Markers, c \in Courses, d \in DateInputs,
        status \in StatusInputs : Mark(u, "stuA", c, d, status, Undef)
  \/ \E b \in BadMarkInputs : Mark("adm", b[1], b[2], b[3], b[4], b[5])

SpecMarkStore == InitMark /\ [][NextMarkStore]_vars

\* two mark requests for one student and course, on one day, interleaving
RaceDates == {0, DayLen - 1}

RaceCaller(r) == IF r = 1 THEN "adm" ELSE "stuA"

InitRace ==
  /\ now = 0
  /\ sessions = [s \in SessionIds |-> NoSession]
  /\ attendance = {}
  /\ last = NoCall
  /\ pending = [r \in Requests |-> NoRequest]
  /\ published = {}
  /\ ClientInit

NextRace ==
  \/ \E r \in Requests, d \in RaceDates, status \in StatusInputs :
        MarkBegin(r, RaceCaller(r), "stuA", "c1", d, status, Undef)
  \/ \E r \in Requests : MarkEnd(r)

SpecRace == InitRace /\ [][NextRace]_vars

\* session creation on its own, over every query string
InitGenerate ==
  /\ now = 0
  /\ sessions = [s \in SessionIds |-> NoSession]
  /\ attendance = {}
  /\ last = NoCall
  /\ pending = [r \in Requests |-> NoRequest]
  /\ published = {}
  /\ ClientInit

NextGenerate ==
  \/ Tick
  \/ \E u \in Callers, c \in CourseInputs, dur \in Durations,
        tl \in TitleLens, nl \in NotesLens : Generate(u, c, dur, tl, nl)

SpecGenerate == InitGenerate /\ [][NextGenerate]_vars

(* ------------------------------ properties ----------------------------- *)
Terminal(doc) == doc.status \in {"expired", "cancelled"}
DayOf(d) == d \div DayLen
Owns(u, c) == c \in Courses /\ courseDoc(c).lecturer = OID(u)
AllDigits(str) == str # <<>> /\ \A i \in DOMAIN str : str[i] \in Digits
NumberInRange(str) ==
  AllDigits(str) /\ DigitPrefix(str, 0) >= MinDuration
                 /\ DigitPrefix(str, 0) <= MaxDuration
ListOps == {"sessions", "active", "listActive"}

\* C1: a session whose stored state is Expired or Cancelled never has stored
\* state Active again, whatever operation runs next.
C1_StateMonotonic ==
  [][\A s \in SessionIds :
       (Exists(s) /\ Terminal(sessions[s]))
         => (sessions'[s] # NoSession /\ Terminal(sessions'[s]))]_vars

\* a save has run on a session that was already Cancelled
C1_Witness ==
  /\ last.op \in {"recordScan", "cancel", "expire", "expireRoute"}
  /\ last.res = "ok"
  /\ last.prevStatus = "cancelled"
  /\ Terminal(sessions[last.sid])

\* C2: for every (student, course, calendar date) at most one attendance
\* record is stored, after successful and failed Mark calls alike.
C2_OneRecordPerDay ==
  \A r1, r2 \in attendance :
    (/\ r1.studentId = r2.studentId
     /\ r1.courseId = r2.courseId
     /\ DayOf(r1.date) = DayOf(r2.date)) => r1 = r2

\* a Mark for a day that already has a record, at another time of day, failed
C2_Witness ==
  /\ last.op = "mark" /\ last.res = "ServerError"
  /\ \E r \in attendance :
       /\ r.studentId = OID(last.student)
       /\ r.courseId = OID(last.course)
       /\ DayOf(r.date) = DayOf(last.date)
       /\ r.date # last.date

\* C3: a scan that finds a session whose stored expiry is before the current
\* time fails with SessionExpired, whatever the stored state and whatever
\* expiry the presented payload carries.
C3_PastExpiryRejected ==
  (/\ last.op = "validate" /\ last.user # Anonymous
   /\ Exists(last.sid)
   /\ sessions[last.sid].expiresAt < now) => last.res = "SessionExpired"

\* C4: when a scan fails with SessionExpired on a session whose stored state
\* was Active, the stored state is Expired once the call has returned.
C4_ExpiredScanStoresExpired ==
  (/\ last.op = "validate" /\ last.res = "SessionExpired"
   /\ last.prevStatus = "active") => sessions[last.sid].status = "expired"

\* C5: the active-session listings (with or without a course filter, and
\* the model's getActiveForCourse / getActiveByUser) return only sessions
\* whose stored state is Active and whose expiry is after the query time.
C5_ListActiveFresh ==
  /\ (last.op \in ListOps /\ last.res = "ok") =>
       \A s \in last.list :
         Exists(s) /\ sessions[s].status = "active"
                   /\ sessions[s].expiresAt > now
  /\ \A s \in UNION ({getActiveForCourse(c) : c \in Courses}
                     \cup {getActiveByUser(u) : u \in Users}) :
       sessions[s].status = "active" /\ sessions[s].expiresAt > now

\* a listing left out a session still stored Active at or past its expiry
C5_Witness ==
  /\ last.op \in ListOps /\ last.res = "ok"
  /\ \E s \in SessionIds :
       /\ Exists(s) /\ sessions[s].status = "active"
       /\ sessions[s].expiresAt <= now
       /\ s \notin last.list

\* C6: Create by the administrator or the course's own lecturer, for an
\* existing course and a duration in [1, 480], succeeds and stores an Active
\* session expiring at the creation time plus the duration.
C6_CreateSucceeds ==
  (/\ last.op = "generate"
   /\ roleOf(last.user) = "admin" \/ Owns(last.user, last.course)
   /\ last.course \in Courses
   /\ NumberInRange(last.dur)) =>
     /\ last.res = "ok"
     /\ Exists(last.sid)
     /\ sessions[last.sid].status = "active"
     /\ sessions[last.sid].expiresAt =
          sessions[last.sid].createdAt + DigitPrefix(last.dur, 0)

C8_CreateAuthorisation ==
  (/\ last.op = "generate" /\ last.user # Anonymous
   /\ last.course \in Courses
   /\ ~durationRejected(parseInt(last.dur)) /\ last.dur # <<>>) =>
     /\ (roleOf(last.user) = "admin" \/ Owns(last.user, last.course))
          => last.res # "Forbidden"
     /\ (roleOf(last.user) = "lecturer" /\ ~Owns(last.user, last.course))
          => (last.res = "Forbidden" /\ last.sid = NoId)

\* C9: a successful scan increments the session's scan counter by exactly
\* one and sets its last-scan timestamp.
C9_ScanCounted ==
  (last.op = "validate" /\ last.res = "ok") =>
     /\ sessions[last.sid].scannedCount = last.prevCount + 1
     /\ sessions[last.sid].lastScannedAt = now

\* C10: after a successful scan exactly one attendance record exists for
\* (the scanner, the session's course, today), with status present and the
\* scanned session as its originating session.
C10_ScanMarksPresent ==
  (last.op = "validate" /\ last.res = "ok") =>
     LET recs == {r \in attendance :
                    /\ r.studentId = OID(last.user)
                    /\ r.courseId = sessions[last.sid].courseId
                    /\ DayOf(r.date) = DayOf(now)}
     IN /\ Cardinality(recs) = 1
        /\ \A r \in recs : r.status = "present" /\ r.qrSessionId = last.sid

\* the name of the course a stored ObjectId refers to
CourseOf(oid) == oid[2]
Enrolled(u, c) == c \in Courses /\ OID(u) \in courseDoc(c).students

\* C11: a scan by a student of an Active, unexpired session fails with
\* NotEnrolled exactly when the student is not enrolled in the course stored
\* with the session, whatever course the payload names; an enrolled student
\* is not rejected.
C11_NotEnrolledExactly ==
  (/\ last.op = "validate" /\ roleOf(last.user) = "student"
   /\ last.user # Anonymous
   /\ Exists(last.sid)
   /\ sessions[last.sid].status = "active"
   /\ sessions[last.sid].expiresAt >= now) =>
     (last.res = "NotEnrolled"
        <=> ~Enrolled(last.user, CourseOf(sessions[last.sid].courseId)))

\* C12: a scan whose well-formed payload carries a session id that matches
\* no stored session, in the store's id format or not, fails with
\* SessionNotFound and changes no stored state.
C12_UnknownSessionNotFound ==
  [][(/\ last'.op = "validate" /\ last'.user # Anonymous
      /\ last'.sid # NoId /\ ~Exists(last'.sid)) =>
        (/\ last'.res = "SessionNotFound"
         /\ sessions' = sessions /\ attendance' = attendance)]_vars

ExpireOps == {"expire", "expireRoute"}

\* C13: Expire on a session whose stored state is already Expired or
\* Cancelled succeeds without effect: the stored state and the stored expiry
\* are the same after the call as before it.
C13_ExpireTerminalNoOp ==
  [][(/\ last'.op \in ExpireOps /\ last'.res = "ok"
      /\ last'.prevStatus \in {"expired", "cancelled"}) =>
        (/\ sessions'[last'.sid].status = sessions[last'.sid].status
         /\ sessions'[last'.sid].expiresAt = sessions[last'.sid].expiresAt)]_vars

\* C14: Cancel on a session whose stored state is already Cancelled succeeds
\* and leaves the stored state Cancelled, whether the call is made before or
\* after the session's expiry has passed.
C14_CancelTwiceCancelled ==
  (last.op = "cancel" /\ last.prevStatus = "cancelled") =>
     (last.res = "ok" /\ sessions[last.sid].status = "cancelled")

\* C15: Cancel on a session whose stored state is already Expired succeeds
\* and leaves the stored state Expired; Cancel never replaces Expired by
\* Cancelled.
C15_CancelKeepsExpired ==
  (last.op = "cancel" /\ last.prevStatus = "expired") =>
     (last.res = "ok" /\ sessions[last.sid].status = "expired")

\* C16: Cancel for an actor who is neither the session's creator nor an
\* administrator fails with Forbidden and leaves the session's stored state
\* unchanged.
C16_CancelForbidden ==
  [][(/\ last'.op = "cancel" /\ Exists(last'.sid)
      /\ roleOf(last'.user) # "admin"
      /\ sessions[last'.sid].createdBy # OID(last'.user)) =>
        (/\ last'.res = "Forbidden"
         /\ sessions'[last'.sid].status = sessions[last'.sid].status)]_vars

\* the stored records of the triple named by the last mark request
MarkedRecords ==
  {r \in attendance : /\ r.studentId = OID(last.student)
                      /\ r.courseId = OID(last.course)
                      /\ DayOf(r.date) = DayOf(last.date)}

\* C17: when Mark succeeds for a triple that already has a record, the
\* stored record's status, note and marking actor are those of that call
\* (and its session reference the one the call carries, which is none): the
\* record holds exactly the last successful call's values.
C17_LastWriteWins ==
  (last.op = "mark" /\ last.res = "updated") =>
     \A r \in MarkedRecords :
       /\ r.status = last.status
       /\ r.notes = last.notes
       /\ r.markedBy = OID(last.user)
       /\ r.qrSessionId = NoId

\* C18: Mark by a caller who is neither the course's lecturer nor an
\* administrator fails with Forbidden, and no attendance record is created
\* or modified.
C18_MarkForbidden ==
  [][(/\ last'.op = "mark" /\ last'.user # Anonymous
      /\ last'.course \in Courses
      /\ roleOf(last'.user) # "admin"
      /\ ~Owns(last'.user, last'.course)) =>
        (last'.res = "Forbidden" /\ attendance' = attendance)]_vars

MarkSucceeded == {"created", "updated"}

\* C19: two Mark calls for the same (student, course, date) that run
\* concurrently both complete successfully, and afterwards exactly one
\* record exists for the triple, holding the values of the write that
\* landed last.
C19_ConcurrentMarksBothSucceed ==
  (/\ \A r \in Requests : pending[r].pc = "done" /\ pending[r].overlapped
   /\ \A r, q \in Requests :
        /\ pending[r].student = pending[q].student
        /\ pending[r].course = pending[q].course
        /\ DayOf(pending[r].date) = DayOf(pending[q].date)) =>
     /\ \A r \in Requests : pending[r].res \in MarkSucceeded
     /\ Cardinality(MarkedRecords) = 1
     /\ \A x \in MarkedRecords : x.status = last.status

\* C20: every successful state-changing operation publishes its broadcast
\* event: Create session-created, a successful scan session-scanned, Expire
\* session-expired, Cancel session-cancelled and Mark attendance-marked.
C20_EventsPublished ==
  /\ (last.op = "generate" /\ last.res = "ok")
       => "session-created" \in published
  /\ (last.op = "validate" /\ last.res = "ok")
       => "session-scanned" \in published
  /\ (last.op \in ExpireOps /\ last.res = "ok")
       => "session-expired" \in published
  /\ (last.op = "cancel" /\ last.res = "ok")
       => "session-cancelled" \in published
  /\ (last.op = "mark" /\ last.res \in MarkSucceeded)
       => "attendance-marked" \in published

\* C21: Mark identifies the record by calendar day: a Mark with an
\* admissible note for a student and course that already have a record on
\* the calendar day of its date argument, at whatever time of day, succeeds
\* and updates that record in place; it neither fails nor adds a record.
C21_MarkByCalendarDay ==
  [][(/\ last'.op = "mark" /\ last'.student # Undef
      /\ last'.notes # "long"
      /\ \E r \in attendance :
           /\ r.studentId = OID(last'.student)
           /\ r.courseId = OID(last'.course)
           /\ DayOf(r.date) = DayOf(last'.date)) =>
        (/\ last'.res = "updated"
         /\ Cardinality(attendance') = Cardinality(attendance))]_vars

\* C22: a scan whose payload does not decode to an object carrying a
\* session id (text that is not JSON, JSON null, a JSON scalar, an object
\* without a session id) fails with MalformedPayload; it is never answered
\* SessionNotFound or a server error.
C22_MalformedPayloadRejected ==
  (/\ last.op = "validate" /\ last.user # Anonymous
   /\ \/ last.kind \in {"nonjson", "null", "scalar"}
      \/ last.kind = "object" /\ last.sid = NoId) =>
     last.res = "MalformedPayload"

\* C23: a scan that fails with SessionExpired or SessionNotActive returns,
\* with the failure, the course and the expiry of the session it found.
C23_FailureCarriesContext ==
  (/\ last.op = "validate"
   /\ last.res \in {"SessionExpired", "SessionNotActive"}) =>
     /\ OID(last.dataCourse) = sessions[last.sid].courseId
     /\ last.dataExpiry = sessions[last.sid].expiresAt

\* C24: once a session is stored, no operation (scan, Expire, Cancel,
\* recordScan, cleanupExpired, the listings) removes it or changes its
\* identifier, course, creator or embedded payload; only its state, expiry,
\* scan counter and last-scan time change.
C24_PayloadImmutable ==
  [][\A s \in SessionIds :
       Exists(s) =>
         /\ sessions'[s] # NoSession
         /\ sessions'[s].courseId = sessions[s].courseId
         /\ sessions'[s].createdBy = sessions[s].createdBy
         /\ sessions'[s].createdAt = sessions[s].createdAt
         /\ sessions'[s].qrCodeData = sessions[s].qrCodeData
         /\ sessions'[s].qrCodeData.sessionId = s]_vars

\* an Expire has moved a session's stored expiry away from the expiry that
\* its payload still carries
C24_Witness ==
  /\ last.op \in ExpireOps /\ last.res = "ok"
  /\ sessions[last.sid].status = "expired"
  /\ sessions[last.sid].expiresAt # sessions[last.sid].qrCodeData.expiresAt
  /\ sessions[last.sid].qrCodeData.sessionId = last.sid

(* ---------------------- js/components/loading.js ----------------------- *)

Messages == {"Loading...", "Saving..."}
Progresses == {NoProgress, 50}

called(o, f) == [o EXCEPT !.lastCall = f]

\* show(message): returns at once on a visible overlay; after destroy() the
\* message element is null and the first assignment throws.
show(o, message) ==
  LET c == called(o, "show")
  IN IF c.isVisible \/ c.destroyed THEN c
     ELSE [c EXCEPT !.text = Text(message, NoProgress), !.classShow = TRUE,
                    !.isVisible = TRUE, !.overflow = "hidden"]

\* hide(): returns at once on an overlay that is not visible; after
\* destroy() the overlay element is null and classList throws.
hideKeepingFlag(o) ==
  LET c == called(o, "hide")
  IN IF ~c.isVisible \/ c.destroyed THEN c
     ELSE [c EXCEPT !.classShow = FALSE, !.overflow = ""]

hide(o) ==
  LET c == called(o, "hide")
  IN IF ~c.isVisible \/ c.destroyed THEN c
     ELSE [c EXCEPT !.classShow = FALSE, !.isVisible = FALSE,
                    !.overflow = ""]

Show(message) ==
  /\ overlay' = show(overlay, message)
  /\ UNCHANGED <<server, socket, api>>

Hide ==
  /\ overlay' = hide(overlay)
  /\ UNCHANGED <<server, socket, api>>

updateMessage(message) ==
  /\ overlay' = IF overlay.destroyed THEN overlay
                ELSE [overlay EXCEPT !.text = Text(message, NoProgress)]
  /\ UNCHANGED <<server, socket, api>>

showProgress(progress, message) ==
  /\ LET o == show(overlay, message)
     IN overlay' = IF progress # NoProgress /\ ~o.destroyed
                   THEN [o EXCEPT !.text = Text(message, progress)]
                   ELSE o
  /\ UNCHANGED <<server, socket, api>>

\* The body that showSuccess and showError share: hide(), then the message,
\* the two colours and the 'show' class are set on the elements, and a
\* timeout is started.  isVisible is not assigned.
flash(message, color, background) ==
  /\ overlay.timers < MaxTimers
  /\ LET o == hide(overlay)
     IN overlay' = IF o.destroyed THEN o
                   ELSE [o EXCEPT !.text = Text(message, NoProgress),
                                  !.color = color,
                                  !.background = background,
                                  !.classShow = TRUE,
                                  !.timers = @ + 1]
  /\ UNCHANGED <<server, socket, api>>

showSuccess(message) == flash(message, "#27ae60", "rgba(39, 174, 96, 0.9)")

showError(message) == flash(message, "#e74c3c", "rgba(231, 76, 60, 0.9)")

\* The timeout callback of showSuccess and showError.
OverlayTimeout ==
  /\ overlay.timers > 0
  /\ LET o == hide([overlay EXCEPT !.timers = @ - 1])
     IN overlay' = IF o.destroyed THEN o
                   ELSE [o EXCEPT !.color = "white",
                                  !.background = "rgba(0, 0, 0, 0.8)"]
  /\ UNCHANGED <<server, socket, api>>

destroy ==
  /\ overlay' = [overlay EXCEPT !.destroyed = TRUE]
  /\ UNCHANGED <<server, socket, api>>

NextOverlay ==
  \/ \E m \in Messages : Show(m)
  \/ Hide
  \/ \E m \in Messages : updateMessage(m)
  \/ \E p \in Progresses, m \in Messages : showProgress(p, m)
  \/ showSuccess("Success!")
  \/ showError("Error occurred")
  \/ OverlayTimeout
  \/ destroy

SpecOverlay == Init /\ [][NextOverlay]_vars

\* C25: on an overlay that has not been destroyed, whatever show() and
\* hide() calls ran (directly or from showProgress, showSuccess, showError
\* and their timeouts), isVisible is true exactly when the last of them was
\* show().
C25_VisibleIffLastShow ==
  ~overlay.destroyed => (overlay.isVisible <=> overlay.lastCall = "show")

C25_Witness ==
  /\ ~overlay.destroyed
  /\ overlay.isVisible
  /\ overlay.lastCall = "show"
  /\ overlay.text = Text("Saving...", NoProgress)

\* C29: on an overlay that has not been destroyed the element carries the
\* 'show' class exactly when isVisible is true, also after showSuccess(),
\* showError() and their timeouts.
C29_ClassMatchesFlag ==
  ~overlay.destroyed => (overlay.classShow <=> overlay.isVisible)

(* ------------------------ js/services/socket.js ------------------------ *)

\* connect(): nothing on a connected service or without a token; otherwise
\* a new socket replaces this.socket (the old one is not closed) and the
\* service marks itself connected and resets reconnectAttempts before any
\* event of the new socket has arrived.
connect(s) ==
  IF s.hasSocket /\ s.isConnected THEN s
  ELSE IF ~s.token THEN s
  ELSE [s EXCEPT !.orphans = @ \/ s.hasSocket, !.hasSocket = TRUE,
                 !.isConnected = TRUE, !.reconnectAttempts = 0]

handleConnectionError(s) ==
  IF s.reconnectAttempts < maxReconnectAttempts
  THEN [s EXCEPT !.isConnected = FALSE,
                 !.reconnectAttempts = @ + 1,
                 !.timers = @ + 1,
                 !.scheduled = @ + 1]
  ELSE [s EXCEPT !.isConnected = FALSE, !.maxEmitted = TRUE]

\* Some socket the service created can still deliver events.
Alive(s) == s.hasSocket \/ s.orphans

\* 'auth:login' after the token was stored.
Login ==
  /\ ~socket.token
  /\ socket' = connect([socket EXCEPT !.token = TRUE, !.scheduled = 0,
                                      !.maxEmitted = FALSE])
  /\ UNCHANGED <<server, overlay, api>>

\* 'auth:logout' after the token was removed: disconnect().
Logout ==
  /\ socket.token
  /\ socket' = IF socket.hasSocket
               THEN [socket EXCEPT !.token = FALSE, !.hasSocket = FALSE,
                                   !.isConnected = FALSE]
               ELSE [socket EXCEPT !.token = FALSE]
  /\ UNCHANGED <<server, overlay, api>>

\* socket.on('connect').
OnConnect ==
  /\ Alive(socket)
  /\ socket' = [socket EXCEPT !.isConnected = TRUE, !.reconnectAttempts = 0,
                              !.scheduled = 0, !.maxEmitted = FALSE]
  /\ UNCHANGED <<server, overlay, api>>

\* socket.on('disconnect'): on 'io server disconnect' the socket itself is
\* asked to connect again, which changes nothing in the service.
OnDisconnect ==
  /\ Alive(socket)
  /\ socket' = [socket EXCEPT !.isConnected = FALSE]
  /\ UNCHANGED <<server, overlay, api>>

\* socket.on('connect_error').
OnConnectError ==
  /\ Alive(socket)
  /\ socket.reconnectAttempts < maxReconnectAttempts
       => socket.scheduled < MaxScheduled /\ socket.timers < MaxScheduled
  /\ socket' = handleConnectionError(socket)
  /\ UNCHANGED <<server, overlay, api>>

\* The timeout that handleConnectionError started.
ReconnectTimeout ==
  /\ socket.timers > 0
  /\ socket' = connect([socket EXCEPT !.timers = @ - 1])
  /\ UNCHANGED <<server, overlay, api>>

InitSocket == ServerIdle /\ ClientInit

NextSocket ==
  \/ Login
  \/ Logout
  \/ OnConnect
  \/ OnDisconnect
  \/ OnConnectError
  \/ ReconnectTimeout

SpecSocket == InitSocket /\ [][NextSocket]_vars

\* C26: while connecting keeps failing, that is since the last login or
\* 'connect' event, at most maxReconnectAttempts reconnects are scheduled.
C26_ReconnectsBounded == socket.scheduled <= maxReconnectAttempts

(* ------------- qrSchema.methods.recordScan, call by call --------------- *)

\* A caller loads the session document (findById); pending[r].doc is its
\* in-memory copy.
ScanLoad(r, sid) ==
  /\ pending[r].pc = "idle"
  /\ Exists(sid)
  /\ pending' = [pending EXCEPT ![r] =
        [NoRequest EXCEPT !.pc = "loaded", !.sid = sid,
                          !.doc = sessions[sid]]]
  /\ UNCHANGED <<now, sessions, attendance, last, published,
                 overlay, socket, api>>

\* doc.recordScan() on the copy: the count and the scan time are set on
\* the copy, the pre-save hook runs on it, and save() writes the paths
\* that were modified on the copy into the stored document.
ScanSave(r) ==
  LET sid == pending[r].sid
      old == pending[r].doc
      doc == qrPreSave([old EXCEPT !.scannedCount = @ + 1,
                                   !.lastScannedAt = now])
  IN /\ pending[r].pc = "loaded"
     /\ sessions' = [sessions EXCEPT ![sid] =
           [@ EXCEPT !.scannedCount = doc.scannedCount,
                     !.lastScannedAt = doc.lastScannedAt,
                     !.status = IF doc.status # old.status
                                THEN doc.status ELSE @]]
     /\ pending' = [pending EXCEPT ![r] = [@ EXCEPT !.pc = "saved"]]
     /\ last' = MethodReply("recordScan", sid)
     /\ UNCHANGED <<now, attendance, published, overlay, socket, api>>

Saved(s) == {r \in Requests : pending[r].pc = "saved" /\ pending[r].sid = s}

NextScan ==
  \/ Tick
  \/ \E r \in Requests, sid \in SessionIds : ScanLoad(r, sid)
  \/ \E r \in Requests : ScanSave(r)
  \/ \E sid \in SessionIds : expire(sid)
  \/ \E sid \in SessionIds : cancel("adm", sid)
  \/ cleanupExpired

SpecScan == Init /\ [][NextScan]_vars

\* C27: once every recordScan call that loaded a session has saved, the
\* stored scannedCount is the initial value (0) plus the number of calls.
C27_NoLostScan ==
  \A s \in SessionIds :
    (Exists(s) /\ \A r \in Requests : pending[r].pc # "loaded")
      => sessions[s].scannedCount = Cardinality(Saved(s))

(* ------------------------- js/services/api.js -------------------------- *)

\* What fetch() can settle with: a network failure, or a response with a
\* status and a body.  Bodies: a JSON object with an ordinary message, the
\* JSON value null, a JSON object whose message contains 'Failed to fetch',
\* and a body that is no JSON.
Statuses == {200, 401, 405, 500}
Bodies == {"message", "null", "fetch-message", "html"}

\* An error as the catch clause of request() sees it: its name, and whether
\* its message includes 'Failed to fetch'.
Err(name, phrase) == [name |-> name, phrase |-> phrase]

\* fetch() rejecting: a TypeError.
NetworkError == Err("TypeError", TRUE)

\* The error thrown for a response that is not ok.  response.json() of a
\* body that is no JSON is replaced by {}; of the body null it is null, and
\* reading errorData.message throws a TypeError; the 405 message is fixed;
\* otherwise the message is the body's message or 'HTTP status: text'.
httpError(status, body) ==
  IF body = "null" THEN Err("TypeError", FALSE)
  ELSE IF status = 405 THEN Err("Error", FALSE)
  ELSE Err("Error", body = "fetch-message")

\* The retry test of the catch clause.
retryable(q, e) ==
  q.attempt < MAX_ATTEMPTS /\ (e.name = "TypeError" \/ e.phrase)

\* The catch clause: wait and call request() again, or rethrow.
catch(q, e, http) ==
  IF retryable(q, e)
  THEN [q EXCEPT !.pc = "waiting", !.retriedHttp = @ \/ http]
  ELSE [q EXCEPT !.pc = "rejected"]

\* request(endpoint, options, attempt + 1) up to its fetch call.
again(q) ==
  [q EXCEPT !.pc = "fetching", !.attempt = @ + 1, !.fetches = @ + 1]

\* setTokens after a login.
setTokens ==
  /\ ~api.refreshToken
  /\ api' = [api EXCEPT !.refreshToken = TRUE]
  /\ UNCHANGED <<server, overlay, socket>>

\* clearTokens at logout.
clearTokens ==
  /\ api.refreshToken
  /\ api' = [api EXCEPT !.refreshToken = FALSE]
  /\ UNCHANGED <<server, overlay, socket>>

\* request(endpoint, options): the first attempt, up to its fetch call.
Request ==
  /\ api.req.pc \in {"idle", "resolved", "rejected"}
  /\ api' = [api EXCEPT !.req = again(NoApiRequest)]
  /\ UNCHANGED <<server, overlay, socket>>

\* fetch() rejects.
FetchFails ==
  /\ api.req.pc = "fetching"
  /\ api' = [api EXCEPT !.req = catch(@, NetworkError, FALSE)]
  /\ UNCHANGED <<server, overlay, socket>>

\* fetch() resolves with a response.  On 401 handleUnauthorized starts a
\* refresh if there is a refresh token and isRefreshing is false, and
\* otherwise returns false at once.
FetchResponds(status, body) ==
  /\ api.req.pc = "fetching"
  /\ api' =
       IF status = 401 /\ api.refreshToken /\ ~api.isRefreshing
       THEN [api EXCEPT !.isRefreshing = TRUE, !.handlerRefresh = @ + 1,
                        !.req = [@ EXCEPT !.pc = "refreshing",
                                          !.status = status,
                                          !.body = body]]
       ELSE IF status = 200
       THEN [api EXCEPT !.req =
               IF body = "html" THEN catch(@, Err("SyntaxError", FALSE), TRUE)
               ELSE [@ EXCEPT !.pc = "resolved"]]
       ELSE [api EXCEPT !.req =
               catch(@, httpError(status, body), TRUE)]
  /\ UNCHANGED <<server, overlay, socket>>

\* The refresh that handleUnauthorized awaits settles; request() goes on.
HandlerRefreshSettles(ok) ==
  LET q == [api.req EXCEPT !.status = 0, !.body = "none"]
      failed == catch(q, httpError(api.req.status, api.req.body), TRUE)
  IN /\ api.req.pc = "refreshing"
     /\ api' = [api EXCEPT
          !.isRefreshing = FALSE,
          !.handlerRefresh = @ - 1,
          !.refreshToken = ok,
          !.req = IF ok /\ q.attempt < MAX_ATTEMPTS THEN again(q)
                  ELSE failed]
     /\ UNCHANGED <<server, overlay, socket>>

\* The delay before a retry has passed.
RetryTimeout ==
  /\ api.req.pc = "waiting"
  /\ api' = [api EXCEPT !.req = again(@)]
  /\ UNCHANGED <<server, overlay, socket>>

\* The setInterval callback of setupTokenRefresh: it tests isRefreshing
\* and does not set it.
RefreshInterval ==
  /\ api.timerRefreshes < MaxRefreshes
  /\ api' = IF api.refreshToken /\ ~api.isRefreshing
            THEN [api EXCEPT !.timerRefreshes = @ + 1]
            ELSE api
  /\ UNCHANGED <<server, overlay, socket>>

\* The refresh that the interval callback awaits settles.
TimerRefreshSettles(ok) ==
  /\ api.timerRefreshes > 0
  /\ api' = [api EXCEPT !.timerRefreshes = @ - 1,
                        !.refreshToken = IF ok THEN TRUE ELSE @]
  /\ UNCHANGED <<server, overlay, socket>>

InFlightRefreshes == api.handlerRefresh + api.timerRefreshes

Settle ==
  \/ FetchFails
  \/ \E status \in Statuses, body \in Bodies : FetchResponds(status, body)

NextApi ==
  \/ setTokens
  \/ clearTokens
  \/ Request
  \/ FetchFails
  \/ \E status \in Statuses, body \in Bodies : FetchResponds(status, body)
  \/ \E ok \in BOOLEAN : HandlerRefreshSettles(ok)
  \/ RetryTimeout
  \/ RefreshInterval
  \/ \E ok \in BOOLEAN : TimerRefreshSettles(ok)

InitApi == ServerIdle /\ ClientInit

SpecApi == InitApi /\ [][NextApi]_vars

\* Every fetch settles and every timeout fires.
SpecApiFair ==
  /\ SpecApi
  /\ WF_vars(Settle)
  /\ WF_vars(\E ok \in BOOLEAN : HandlerRefreshSettles(ok))
  /\ WF_vars(RetryTimeout)

\* C28: at most one token refresh is in flight, counting those of the 401
\* handler and those of the periodic timer, and isRefreshing is false
\* whenever none is in flight.
C28_OneRefreshInFlight ==
  /\ InFlightRefreshes <= 1
  /\ InFlightRefreshes = 0 => ~api.isRefreshing

ApiBusy == api.req.pc \in {"fetching", "refreshing", "waiting"}

ApiDone == api.req.pc \in {"resolved", "rejected"}

C30_FetchesBounded == api.req.fetches <= MAX_ATTEMPTS

C30_Terminates == ApiBusy ~> ApiDone

\* C30: a request issues at most MAX_ATTEMPTS fetch calls, its catch
\* clause never retries after an HTTP response, and it terminates.
C30_RequestBounded ==
  /\ [](C30_FetchesBounded /\ ~api.req.retriedHttp)
  /\ C30_Terminates

====
